---- MODULE Spec2Model ----
(***************************************************************************)
(* State-machine model of SCHWordCloud: the DataManager (ledger, worklist, *)
(* pending buffers, flush to the annotation artifacts) and the crawl loop  *)
(* of SCHWordCloud.generate_wordcloud.                                     *)
(*                                                                         *)
(* Strings the code slices or strips (homologation numbers) are sequences  *)
(* of one-character strings.  Files are values: a spreadsheet is the       *)
(* sequence of its rows, a folder a function from file names to contents.  *)
(***************************************************************************)
EXTENDS Integers, Sequences, FiniteSets, TLC

(***************************************************************************)
(* Bounds of the model.                                                    *)
(***************************************************************************)
\* the wall clock runs over the seconds 0..MaxClock
MaxClock == 1
\* calls a direct caller of the DataManager makes (add_result, save_annotation)
MaxCalls == 4
\* rows of the catalog and of the ledger handed to get_items_to_search
MaxRows == 2
MaxLedgerRows == 1

(***************************************************************************)
(* Program constants.                                                      *)
(***************************************************************************)
SEARCH_RETRIES == 3
SEARCH_ATTEMPT_INTERVAL_TIMEOUT == 5
\* defaults of DataManager.get_items_to_search
DefaultCategory == 2
DefaultGracePeriod == 180
\* defaults of fetch_sch_database and _download_sch_database
DownloadGracePeriod == 180
DefaultRetries == 3
RetryDelay == 1
\* the day the program runs, in days since an arbitrary origin
Today == 1000

\* status codes the search capability answers with: success, a retryable
\* failure, service unavailable (the code treats 429 exactly as 503)
Statuses == {200, 500, 503}
\* the statuses DataManager.add_result refuses
RateLimitStatuses == {429, 503}

KA == <<"A">>
KB == <<"B">>
KC == <<"C">>
Keys == {KA, KB, KC}

(***************************************************************************)
(* Generic helpers.                                                        *)
(***************************************************************************)
Min(a, b) == IF a < b THEN a ELSE b

Range(s) == {s[i] : i \in 1..Len(s)}

\* Python s[a:b] for 0 <= a <= b (indices clamp to the length)
Slice(s, a, b) ==
    IF a >= Min(b, Len(s)) THEN <<>> ELSE SubSeq(s, a + 1, Min(b, Len(s)))

\* Python s[a:]
SliceFrom(s, a) == Slice(s, a, Len(s))

\* str.replace("-", "")
StripDashes(s) == SelectSeq(s, LAMBDA c : c # "-")

\* random.shuffle(list): every order of the same elements
Shuffles(s) ==
    { p \in [1..Len(s) -> Range(s)] :
        \A x \in Range(s) :
            Cardinality({k \in 1..Len(s) : p[k] = x}) =
            Cardinality({k \in 1..Len(s) : s[k] = x}) }

\* list.remove(x): drops the first occurrence of x
RECURSIVE RemoveFirst(_, _)
RemoveFirst(s, x) ==
    IF s = <<>> THEN <<>>
    ELSE IF Head(s) = x THEN Tail(s)
    ELSE <<Head(s)>> \o RemoveFirst(Tail(s), x)

\* DataFrame.drop_duplicates(subset=col), keep="first"
RECURSIVE DropDuplicatesBy(_, _, _)
DropDuplicatesBy_KeepsAll(rows, subset, seen) == rows

DropDuplicatesBy(rows, subset, seen) ==
    IF rows = <<>> THEN <<>>
    ELSE IF Head(rows)[subset] \in seen
         THEN DropDuplicatesBy(Tail(rows), subset, seen)
         ELSE <<Head(rows)>> \o
              DropDuplicatesBy(Tail(rows), subset, seen \cup {Head(rows)[subset]})


(***************************************************************************)
(* Data: catalog rows, annotation rows, search results.                    *)
(***************************************************************************)
\* fault variant: another separator is written
DashedForm_OtherSeparator(query) ==
    Slice(query, 0, 5) \o <<"/">> \o Slice(query, 5, 7) \o <<"/">> \o
    SliceFrom(query, 7)

\* f"{query[:5]}-{query[5:7]}-{query[7:]}"
DashedForm(query) ==
    Slice(query, 0, 5) \o <<"-">> \o Slice(query, 5, 7) \o <<"-">> \o
    SliceFrom(query, 7)

\* a row of produtos_certificados: homologation number, date (a day), category
SchRow(num, date, cat) ==
    [NumeroDeHomologacao |-> num, DataDaHomologacao |-> date,
     CategoriaDoProduto |-> cat]

OldDay == Today - DefaultGracePeriod - 1
RecentDay == Today - DefaultGracePeriod

\* three distinct numbers of the default category, all past the grace period
CatalogPlain ==
    << SchRow(KA, OldDay, 2), SchRow(KB, OldDay, 2), SchRow(KC, OldDay, 2) >>
\* a repeated number, a number inside the grace period, another category
CatalogMixed ==
    << SchRow(KA, OldDay, 2), SchRow(KA, OldDay, 2),
       SchRow(KB, RecentDay, 2), SchRow(KC, OldDay, 1) >>
Catalogs == {CatalogPlain, CatalogMixed}

\* an annotation row written by an earlier run
HistRow(n, key, situacao) ==
    [ID |-> <<"hist", n>>, DataHora |-> 0 - 1, Homologacao |-> DashedForm(key),
     Atributo |-> "WordCloud",
     Valor |-> [searchedWord |-> key,
                cloudOfWords |-> IF situacao = 1 THEN "w" ELSE ""],
     Situacao |-> situacao]

\* contents of the cloud Annotation.xlsx the run starts from
PositiveSources == { <<>>, <<HistRow(1, KA, 1)>> }

Absent == [exists |-> FALSE, rows |-> <<>>]
File(rows) == [exists |-> TRUE, rows |-> rows]

\* states of the local AnnotationNull.xlsx the run starts from
NullFiles == { Absent, File(<<HistRow(2, KB, 0 - 1)>>) }

(***************************************************************************)
(* Ledger load and backlog resolution.                                     *)
(***************************************************************************)
\* fault variant: the rows of every attribute are returned
FetchAnnotation_Unfiltered(positive_rows, local_null_file) ==
    IF local_null_file.exists
    THEN positive_rows \o local_null_file.rows
    ELSE positive_rows

FetchAnnotation_IgnoresLocalNull(positive_rows, local_null_file) ==
    SelectSeq(positive_rows, LAMBDA r : r.Atributo = "WordCloud")

\* annotation.py fetch_annotation, from the read of the local copies on
FetchAnnotation(positive_rows, local_null_file) ==
    LET all == IF local_null_file.exists
               THEN positive_rows \o local_null_file.rows
               ELSE positive_rows
    IN  SelectSeq(all, LAMBDA r : r.Atributo = "WordCloud")

\* dict(list of [Homologacao, ID] pairs): the last pair of a key wins
GetUuidHistory(ann) ==
    [ h \in {ann[i].Homologacao : i \in 1..Len(ann)} |->
        LET last == CHOOSE i \in 1..Len(ann) :
                        /\ ann[i].Homologacao = h
                        /\ \A j \in 1..Len(ann) :
                               ann[j].Homologacao = h => j <= i
        IN  ann[last].ID ]


\* (pd.Timestamp.now() - data_homologacao).days
DiasDaHomologacao(r) == Today - r.DataDaHomologacao

\* fault variant: the ledger numbers are compared as they are written
AntiJoin_RawLedgerKeys(df_sch, ann) ==
    LET annotated == {ann[i].Homologacao : i \in 1..Len(ann)}
    IN  SelectSeq(df_sch, LAMBDA r : r.NumeroDeHomologacao \notin annotated)

\* fault variant: the rows that have an ID are kept (notna for isna)
AntiJoin_Inverted(df_sch, ann) ==
    LET annotated == {StripDashes(ann[i].Homologacao) : i \in 1..Len(ann)}
    IN  SelectSeq(df_sch, LAMBDA r : r.NumeroDeHomologacao \in annotated)

\* the left merge with the ledger, whose numbers have "-" removed, and the
\* selection of the rows without ID.  Every ledger row carries an ID, so a
\* catalog row is left without one exactly when no ledger row has its number
AntiJoin(df_sch, ann) ==
    LET annotated == {StripDashes(ann[i].Homologacao) : i \in 1..Len(ann)}
    IN  SelectSeq(df_sch, LAMBDA r : r.NumeroDeHomologacao \notin annotated)

\* fault variant: ">=" for ">"
AgeFilter_AtLeast(df_to_search, grace_period) ==
    IF grace_period > 0
    THEN SelectSeq(df_to_search, LAMBDA r : DiasDaHomologacao(r) >= grace_period)
    ELSE df_to_search

\* fault variant: the filter is applied whatever the grace period
AgeFilter_Always(df_to_search, grace_period) ==
    SelectSeq(df_to_search, LAMBDA r : DiasDaHomologacao(r) > grace_period)

\* "if grace_period > 0": the rows older than the grace period
AgeFilter(df_to_search, grace_period) ==
    IF grace_period > 0
    THEN SelectSeq(df_to_search, LAMBDA r : DiasDaHomologacao(r) > grace_period)
    ELSE df_to_search

GetItemsToSearch(df, ann, category, grace_period) ==
    LET byCategory == IF category \in {1, 2, 3}
                      THEN SelectSeq(df, LAMBDA r : r.CategoriaDoProduto = category)
                      ELSE df
        df_sch     == DropDuplicatesBy(byCategory, "NumeroDeHomologacao", {})
        to_search  == AntiJoin(df_sch, ann)
        aged       == AgeFilter(to_search, grace_period)
    IN  [i \in 1..Len(aged) |-> aged[i].NumeroDeHomologacao]

\* fault variant: the list is shuffled whatever the flag
ShuffleIf_Always(flag, items) == Shuffles(items)

\* "if shuffle: random.shuffle(items_to_search)"
ShuffleIf(flag, items) == IF flag THEN Shuffles(items) ELSE {items}

(***************************************************************************)
(* The search capability's answer, as BaseSearch.request_wordcloud builds  *)
(* it: the word counts are empty unless the status is 200.                 *)
(***************************************************************************)
RequestWordcloud(query, status_code, word_counts) ==
    [query |-> query,
     status_code |-> status_code,
     wordcloud |-> [searchedWord |-> query,
                    cloudOfWords |-> IF status_code = 200 THEN word_counts ELSE ""],
     raw_contents |-> <<query, status_code>>]

\* what _extract_word_counts can return: "" (no text) or a JSON of counts
WordCounts == {"", "w"}

(***************************************************************************)
(* DataManager.format_annotation.  uuid4() is evaluated on every call (it  *)
(* is the default argument of dict.get); n is the number of that call.     *)
(***************************************************************************)
\* fault variant: the lookup is not consulted
FormatAnnotation_AlwaysFresh(search_result, uuids, n, datahora) ==
    LET wordcloud == search_result.wordcloud
    IN  [ID |-> <<"uuid4", n>>,
         DataHora |-> datahora,
         Homologacao |-> DashedForm(wordcloud.searchedWord),
         Atributo |-> "WordCloud",
         Valor |-> wordcloud,
         Situacao |-> IF wordcloud.cloudOfWords = "" THEN 0 - 1 ELSE 1]

\* fault variant: every outcome is recorded as positive
FormatAnnotation_AlwaysPositive(search_result, uuids, n, datahora) ==
    LET wordcloud   == search_result.wordcloud
        homologacao == DashedForm(wordcloud.searchedWord)
    IN  [ID |-> IF homologacao \in DOMAIN uuids
                THEN uuids[homologacao] ELSE <<"uuid4", n>>,
         DataHora |-> datahora,
         Homologacao |-> homologacao,
         Atributo |-> "WordCloud",
         Valor |-> wordcloud,
         Situacao |-> 1]

FormatAnnotation(search_result, uuids, n, datahora) ==
    LET wordcloud   == search_result.wordcloud
        query       == wordcloud.searchedWord
        homologacao == DashedForm(query)
    IN  [ID |-> IF homologacao \in DOMAIN uuids
                THEN uuids[homologacao] ELSE <<"uuid4", n>>,
         DataHora |-> datahora,
         Homologacao |-> homologacao,
         Atributo |-> "WordCloud",
         Valor |-> wordcloud,
         Situacao |-> IF wordcloud.cloudOfWords = "" THEN 0 - 1 ELSE 1]

(***************************************************************************)
(* DataManager.add_result: the two caches after the call and the value it  *)
(* returns.                                                                *)
(***************************************************************************)
AddResult(results, annotations, search_result, uuids, n, datahora) ==
    IF search_result.status_code \in RateLimitStatuses
    THEN [cached_search_results |-> results,
          cached_annotation |-> annotations,
          formatted |-> FALSE,
          ret |-> FALSE]
    ELSE [cached_search_results |-> Append(results, search_result),
          cached_annotation |->
              Append(annotations,
                     FormatAnnotation(search_result, uuids, n, datahora)),
          formatted |-> TRUE,
          ret |-> TRUE]

(***************************************************************************)
(* annotation.py save_cloud_annotation.  folder is the cloud post folder,  *)
(* a function from the timestamp in the file name to the rows of the file; *)
(* ok tells whether to_excel succeeds.  A failed write leaves the folder   *)
(* as it was and raises OSError.                                           *)
(***************************************************************************)
\* fault variant: the outcome filter is missing, every pending row is posted
PositiveRows_Unfiltered(annotation_rows) == annotation_rows

\* annotation[annotation["Situacao"] == 1]
PositiveRows(annotation_rows) ==
    SelectSeq(annotation_rows, LAMBDA r : r.Situacao = 1)

NullRows(annotation_rows) ==
    SelectSeq(annotation_rows, LAMBDA r : r.Situacao = 0 - 1)

WriteFile(folder, name, rows) ==
    [f \in DOMAIN folder \cup {name} |-> IF f = name THEN rows ELSE folder[f]]

SaveCloudAnnotation(annotation_rows, folder, annotation_ts, ok) ==
    LET positive == PositiveRows(annotation_rows)
    IN  IF positive = <<>>
        THEN [folder |-> folder, wrote |-> FALSE, raised |-> FALSE]
        ELSE IF ok
        THEN [folder |-> WriteFile(folder, annotation_ts, positive),
              wrote |-> TRUE, raised |-> FALSE]
        ELSE [folder |-> folder, wrote |-> FALSE, raised |-> TRUE]


(***************************************************************************)
(* annotation.py update_null_annotation.  file is the local                *)
(* AnnotationNull.xlsx.                                                    *)
(***************************************************************************)
\* fault variant: the file is rewritten from the pending rows alone
UpdateNullAnnotation_Overwrites(annotation_rows, file, ok) ==
    LET null_annotation == NullRows(annotation_rows)
    IN  IF null_annotation = <<>>
        THEN [file |-> file, wrote |-> FALSE, raised |-> FALSE]
        ELSE IF ok
        THEN [file |-> File(null_annotation), wrote |-> TRUE, raised |-> FALSE]
        ELSE [file |-> file, wrote |-> FALSE, raised |-> TRUE]

\* fault variant: an existing file is written back without the pending rows
UpdateNullAnnotation_DropsPending(annotation_rows, file, ok) ==
    LET null_annotation == NullRows(annotation_rows)
        merged == IF file.exists THEN file.rows ELSE null_annotation
    IN  IF null_annotation = <<>>
        THEN [file |-> file, wrote |-> FALSE, raised |-> FALSE]
        ELSE IF ok
        THEN [file |-> File(merged), wrote |-> TRUE, raised |-> FALSE]
        ELSE [file |-> file, wrote |-> FALSE, raised |-> TRUE]

UpdateNullAnnotation(annotation_rows, file, ok) ==
    LET null_annotation == NullRows(annotation_rows)
        merged == IF file.exists
                  THEN DropDuplicatesBy(file.rows \o null_annotation, "ID", {})
                  ELSE null_annotation
    IN  IF null_annotation = <<>>
        THEN [file |-> file, wrote |-> FALSE, raised |-> FALSE]
        ELSE IF ok
        THEN [file |-> File(merged), wrote |-> TRUE, raised |-> FALSE]
        ELSE [file |-> file, wrote |-> FALSE, raised |-> TRUE]

(***************************************************************************)
(* DataManager.save_annotation: the try block runs the two writes in       *)
(* order; the except clause catches whatever they raise, prints it and     *)
(* returns; the buffer is cleared at the end of the try block only.        *)
(***************************************************************************)
\* fault variant: the buffer is cleared whether or not a write raised
BufferAfterSave_ClearedAlways(annotations, raised) == <<>>

\* "self._cached_annotation = []" is the last statement of the try block:
\* it runs only when neither write raised
BufferAfterSave(annotations, raised) ==
    IF raised THEN annotations ELSE <<>>

SaveAnnotationOutcome(annotations, folder, file, annotation_ts, posOk, nullOk) ==
    LET cloud == SaveCloudAnnotation(annotations, folder, annotation_ts, posOk)
        null  == UpdateNullAnnotation(annotations, file, nullOk)
    IN  IF annotations = <<>>
        THEN [cached_annotation |-> annotations, folder |-> folder, file |-> file,
              positive |-> "not run", null |-> "not run",
              printed_error |-> FALSE, raised |-> FALSE]
        ELSE IF cloud.raised
        THEN [cached_annotation |-> BufferAfterSave(annotations, TRUE),
              folder |-> cloud.folder, file |-> file,
              positive |-> "failed", null |-> "not run",
              printed_error |-> TRUE, raised |-> FALSE]
        ELSE [cached_annotation |-> BufferAfterSave(annotations, null.raised),
              folder |-> cloud.folder, file |-> null.file,
              positive |-> IF cloud.wrote THEN "written" ELSE "nothing",
              null |-> IF null.raised THEN "failed"
                       ELSE IF null.wrote THEN "written" ELSE "nothing",
              printed_error |-> null.raised, raised |-> FALSE]

(***************************************************************************)
(* DataManager.save_search_results.  file is search_history.parquet; a     *)
(* failed to_parquet leaves it as it was and the method raises OSError.    *)
(***************************************************************************)
\* fault variant: the check for an empty cache is missing
SaveSearchResultsOutcome_WritesAlways(results, file, ok) ==
    LET raw_contents == [i \in 1..Len(results) |-> results[i].raw_contents]
        df_search_history == (IF file.exists THEN file.rows ELSE <<>>) \o raw_contents
    IN  IF ok
        THEN [cached_search_results |-> <<>>, file |-> File(df_search_history),
              write |-> "written", raised |-> FALSE]
        ELSE [cached_search_results |-> results, file |-> file,
              write |-> "failed", raised |-> TRUE]

\* fault variant: the file is written from the cache alone
SaveSearchResultsOutcome_Overwrites(results, file, ok) ==
    LET raw_contents == [i \in 1..Len(results) |-> results[i].raw_contents]
    IN  IF results = <<>>
        THEN [cached_search_results |-> results, file |-> file,
              write |-> "not run", raised |-> FALSE]
        ELSE IF ok
        THEN [cached_search_results |-> <<>>, file |-> File(raw_contents),
              write |-> "written", raised |-> FALSE]
        ELSE [cached_search_results |-> results, file |-> file,
              write |-> "failed", raised |-> TRUE]

SaveSearchResultsOutcome(results, file, ok) ==
    LET raw_contents == [i \in 1..Len(results) |-> results[i].raw_contents]
        df_search_history == (IF file.exists THEN file.rows ELSE <<>>) \o raw_contents
    IN  IF results = <<>>
        THEN [cached_search_results |-> results, file |-> file,
              write |-> "not run", raised |-> FALSE]
        ELSE IF ok
        THEN [cached_search_results |-> <<>>, file |-> File(df_search_history),
              write |-> "written", raised |-> FALSE]
        ELSE [cached_search_results |-> results, file |-> file,
              write |-> "failed", raised |-> TRUE]

(***************************************************************************)
(* State.                                                                  *)
(***************************************************************************)
VARIABLES
    \* DataManager
    sch, annotation, uuid_history, items_to_search,
    \* the arguments get_items_to_search was called with
    category, grace_period, shuffle,
    \* fetch_sch_database: its arguments, the local produtos_certificados.zip,
    \* the temporary file of _download_sch_database and its n_retries
    \* counter; observation: urlretrieve calls made and seconds slept
    fetch_args, sch_file, part_file, n_retries, download_log,
    \* fetch_annotation: Annotation.xlsx and AnnotationNull.xlsx of the cloud
    \* folder, and the local Annotation.xlsx (the local AnnotationNull.xlsx
    \* is null_file)
    cloud_annotation_file, cloud_null_annotation_file, local_annotation_file,
    \* two processes in save_annotation on the same local folder: where each
    \* is, what it read from AnnotationNull.xlsx, its _cached_annotation;
    \* observation: the order of their reads and writes
    flush_pc, flush_read, flush_pending, flush_log,
    cached_search_results, cached_annotation,
    \* artifacts: cloud post folder, local AnnotationNull.xlsx,
    \* search_history.parquet
    post_folder, null_file, history_file,
    \* wall clock (seconds) and number of uuid4() calls made
    now, uuid_count,
    \* SCHWordCloud.generate_wordcloud: position, index of the list iterator
    \* of the for loop, the item and the attempt of _generate_wordcloud
    pc, iter_index, search_term, attempt, raised_by,
    \* observation: worklist at the start of the run, every answer of the
    \* search capability, seconds slept per key, every annotation appended,
    \* the report of the last save_annotation and of the last
    \* save_search_results call, the number of calls a direct caller has made
    initial_items, calls, slept, appended, last_flush, last_save_results, n_calls

vars == << sch, annotation, uuid_history, items_to_search,
           category, grace_period, shuffle,
           fetch_args, sch_file, part_file, n_retries, download_log,
           cloud_annotation_file, cloud_null_annotation_file,
           local_annotation_file,
           flush_pc, flush_read, flush_pending, flush_log,
           cached_search_results, cached_annotation,
           post_folder, null_file, history_file, now, uuid_count,
           pc, iter_index, search_term, attempt, raised_by,
           initial_items, calls, slept, appended, last_flush,
           last_save_results, n_calls >>

catalogVars == << fetch_args, sch_file, part_file, n_retries, download_log >>
sourceVars ==
    << cloud_annotation_file, cloud_null_annotation_file, local_annotation_file >>
raceVars == << flush_pc, flush_read, flush_pending, flush_log >>
ledgerVars == << sch, annotation, uuid_history, category, grace_period, shuffle,
                catalogVars, sourceVars, raceVars >>
loopVars == << iter_index, search_term, attempt >>

NoItem == <<>>
EmptyFolder == [f \in {} |-> <<>>]

FlushNotCalled ==
    [before |-> <<>>, after |-> <<>>, positive |-> "not called",
     null |-> "not called", printed_error |-> FALSE, raised |-> FALSE]
SaveResultsNotCalled ==
    [before |-> <<>>, after |-> <<>>, write |-> "not called", raised |-> FALSE]

\* the local copy of the catalog: what it holds and its age in days
NoLocalCopy == [exists |-> FALSE, content |-> "none", age |-> 0]
LocalCopy(content, age) == [exists |-> TRUE, content |-> content, age |-> age]

\* the defaults of fetch_sch_database, with which DataManager calls it
DefaultFetchArgs ==
    [home |-> "dir", download_if_missing |-> TRUE,
     download_grace_period |-> DownloadGracePeriod, force_download |-> FALSE,
     n_retries |-> DefaultRetries, delay |-> RetryDelay]

NoDownload == [attempts |-> 0, slept |-> 0]

\* fetch_sch_database has returned the catalog from a recent local copy
SchFetched ==
    /\ fetch_args = DefaultFetchArgs
    /\ sch_file = LocalCopy("old", 0)
    /\ part_file = "none"
    /\ n_retries = DefaultRetries
    /\ download_log = NoDownload

\* the processes that may run against the same local annotation folder
Procs == {1, 2}

\* no second process: nobody is inside save_annotation
SingleProcess ==
    /\ flush_pc = [p \in Procs |-> "idle"]
    /\ flush_read = [p \in Procs |-> Absent]
    /\ flush_pending = [p \in Procs |-> << >>]
    /\ flush_log = << >>

\* states of search_history.parquet the run starts from
HistoryFiles == { Absent, File(<< <<KC, 200>> >>) }

(***************************************************************************)
(* DataManager.__init__: catalog and ledger are loaded, the lookup and the *)
(* shuffled worklist are computed, the two caches are empty.               *)
(***************************************************************************)
InitDataManager ==
    /\ SchFetched
    /\ SingleProcess
    /\ sch \in Catalogs
    /\ null_file \in NullFiles
    /\ cloud_null_annotation_file = Absent
    /\ \E positive \in PositiveSources :
           /\ cloud_annotation_file = File(positive)
           /\ local_annotation_file = File(positive)
           /\ annotation = FetchAnnotation(positive, null_file)
    /\ uuid_history = GetUuidHistory(annotation)
    /\ category = DefaultCategory
    /\ grace_period = DefaultGracePeriod
    /\ shuffle = TRUE
    /\ items_to_search \in
           ShuffleIf(shuffle,
                     GetItemsToSearch(sch, annotation, category, grace_period))
    /\ cached_search_results = <<>>
    /\ cached_annotation = <<>>
    /\ post_folder = EmptyFolder
    /\ history_file \in HistoryFiles
    /\ now = 0
    /\ uuid_count = 0
    /\ iter_index = 0
    /\ search_term = NoItem
    /\ attempt = 0
    /\ raised_by = "none"
    /\ initial_items = items_to_search
    /\ calls = <<>>
    /\ slept = [k \in Keys |-> 0]
    /\ appended = <<>>
    /\ last_flush = FlushNotCalled
    /\ last_save_results = SaveResultsNotCalled
    /\ n_calls = 0

Init == InitDataManager /\ pc = "for"

(***************************************************************************)
(* The clock.  The program reads it in format_annotation (DataHora) and in *)
(* save_cloud_annotation (file name); it may advance before any of these   *)
(* reads.                                                                  *)
(***************************************************************************)
Tick ==
    /\ pc \in {"attempt", "save_annotation", "api"}
    /\ now < MaxClock
    /\ now' = now + 1
    /\ UNCHANGED << ledgerVars, items_to_search,
                    cached_search_results, cached_annotation,
                    post_folder, null_file, history_file, uuid_count,
                    pc, iter_index, search_term, attempt, raised_by,
                    initial_items, calls, slept, appended, last_flush,
                    last_save_results, n_calls >>

(***************************************************************************)
(* Effects of the DataManager methods on the state (no control flow).      *)
(***************************************************************************)
DoAddResult(search_result) ==
    LET r == AddResult(cached_search_results, cached_annotation, search_result,
                       uuid_history, uuid_count + 1, now)
    IN  /\ cached_search_results' = r.cached_search_results
        /\ cached_annotation' = r.cached_annotation
        /\ uuid_count' = IF r.formatted THEN uuid_count + 1 ELSE uuid_count
        /\ appended' = IF r.formatted
                       THEN Append(appended,
                                   r.cached_annotation[Len(r.cached_annotation)])
                       ELSE appended

DoSaveAnnotation(posOk, nullOk) ==
    LET r == SaveAnnotationOutcome(cached_annotation, post_folder, null_file,
                                   now, posOk, nullOk)
    IN  /\ cached_annotation' = r.cached_annotation
        /\ post_folder' = r.folder
        /\ null_file' = r.file
        /\ last_flush' =
               [before |-> cached_annotation, after |-> r.cached_annotation,
                positive |-> r.positive, null |-> r.null,
                printed_error |-> r.printed_error, raised |-> r.raised]

DoSaveSearchResults(ok) ==
    LET r == SaveSearchResultsOutcome(cached_search_results, history_file, ok)
    IN  /\ cached_search_results' = r.cached_search_results
        /\ history_file' = r.file
        /\ last_save_results' =
               [before |-> cached_search_results,
                after |-> r.cached_search_results,
                write |-> r.write, raised |-> r.raised]

(***************************************************************************)
(* SCHWordCloud.generate_wordcloud.                                        *)
(***************************************************************************)
\* "for item in self.dm.items_to_search": the list iterator keeps an index
\* into the list object, which _generate_wordcloud mutates
IteratorHasNext(items, index) == index < Len(items)

\* no status: what a call that falls off the end of the function returns
None == 0

\* fault variant: a return in place of the break skips the two saves
AfterItem_ReturnsOnFailure(returned) ==
    IF returned # 200 THEN "done" ELSE "for"

\* fault variant: the loop goes on to the next item after a failed one
AfterItem_ContinuesOnFailure(returned) == "for"

\* "if self._generate_wordcloud(item) != 200: break", then the two saves
AfterItem(returned) == IF returned # 200 THEN "save_annotation" ELSE "for"

(***************************************************************************)
(* One pass of the body of "for attempt in range(SEARCH_RETRIES)" in       *)
(* _generate_wordcloud, for the status the search answered with: whether   *)
(* add_result and items_to_search.remove run, the seconds slept, whether   *)
(* the function returns and what.                                          *)
(***************************************************************************)
\* fault variant: add_result is called before the status is asserted
GenerateWordcloudAttempt_AddsBeforeAssert(a, status_code) ==
    IF status_code = 200
    THEN [add_result |-> TRUE, remove |-> TRUE, sleep |-> 0,
          returns |-> TRUE, value |-> status_code]
    ELSE IF a < SEARCH_RETRIES - 1
    THEN [add_result |-> TRUE, remove |-> FALSE,
          sleep |-> SEARCH_ATTEMPT_INTERVAL_TIMEOUT,
          returns |-> ~(a + 1 < SEARCH_RETRIES), value |-> None]
    ELSE [add_result |-> TRUE, remove |-> FALSE, sleep |-> 0,
          returns |-> TRUE, value |-> status_code]

\* fault variant: every failed attempt sleeps, the last one included
GenerateWordcloudAttempt_SleepsAfterLast(a, status_code) ==
    IF status_code = 200
    THEN [add_result |-> TRUE, remove |-> TRUE, sleep |-> 0,
          returns |-> TRUE, value |-> status_code]
    ELSE [add_result |-> FALSE, remove |-> FALSE,
          sleep |-> SEARCH_ATTEMPT_INTERVAL_TIMEOUT,
          returns |-> ~(a + 1 < SEARCH_RETRIES), value |-> None]

\* fault variant: the key of a successful search is left in the worklist
GenerateWordcloudAttempt_KeepsKey(a, status_code) ==
    IF status_code = 200
    THEN [add_result |-> TRUE, remove |-> FALSE, sleep |-> 0,
          returns |-> TRUE, value |-> status_code]
    ELSE IF a < SEARCH_RETRIES - 1
    THEN [add_result |-> FALSE, remove |-> FALSE,
          sleep |-> SEARCH_ATTEMPT_INTERVAL_TIMEOUT,
          returns |-> ~(a + 1 < SEARCH_RETRIES), value |-> None]
    ELSE [add_result |-> FALSE, remove |-> FALSE, sleep |-> 0,
          returns |-> TRUE, value |-> status_code]

GenerateWordcloudAttempt(a, status_code) ==
    IF status_code = 200
    THEN [add_result |-> TRUE, remove |-> TRUE, sleep |-> 0,
          returns |-> TRUE, value |-> status_code]
    ELSE IF a < SEARCH_RETRIES - 1
    THEN [add_result |-> FALSE, remove |-> FALSE,
          sleep |-> SEARCH_ATTEMPT_INTERVAL_TIMEOUT,
          returns |-> ~(a + 1 < SEARCH_RETRIES), value |-> None]
    ELSE [add_result |-> FALSE, remove |-> FALSE, sleep |-> 0,
          returns |-> TRUE, value |-> status_code]

\* the for statement asks the iterator for the next item
ForNext ==
    /\ pc = "for"
    /\ IF IteratorHasNext(items_to_search, iter_index)
       THEN /\ search_term' = items_to_search[iter_index + 1]
            /\ iter_index' = iter_index + 1
            /\ attempt' = 0
            /\ pc' = "attempt"
       ELSE /\ pc' = "save_annotation"
            /\ UNCHANGED loopVars
    /\ UNCHANGED << ledgerVars, items_to_search, cached_search_results,
                    cached_annotation, post_folder, null_file, history_file,
                    now, uuid_count, raised_by, initial_items, calls, slept,
                    appended, last_flush, last_save_results, n_calls >>

\* the effect of one attempt on the state
DoAttempt(status_code, word_counts) ==
    LET o == GenerateWordcloudAttempt(attempt, status_code)
    IN  /\ calls' = Append(calls, <<search_term, status_code>>)
        /\ IF o.add_result
           THEN DoAddResult(RequestWordcloud(search_term, status_code,
                                             word_counts))
           ELSE UNCHANGED << cached_search_results, cached_annotation,
                             uuid_count, appended >>
        /\ items_to_search' = IF o.remove
                              THEN RemoveFirst(items_to_search, search_term)
                              ELSE items_to_search
        /\ slept' = [slept EXCEPT ![search_term] = @ + o.sleep]
        /\ IF o.returns
           THEN /\ pc' = AfterItem(o.value)
                /\ search_term' = NoItem
                /\ attempt' = 0
           ELSE /\ attempt' = attempt + 1
                /\ UNCHANGED << pc, search_term >>

\* one attempt of _generate_wordcloud that is answered with status 200
AttemptSucceeds ==
    /\ pc = "attempt"
    /\ \E word_counts \in WordCounts : DoAttempt(200, word_counts)
    /\ UNCHANGED << ledgerVars, post_folder, null_file, history_file, now,
                    iter_index, raised_by, initial_items, last_flush,
                    last_save_results, n_calls >>

\* one attempt that is answered with another status: the assert fails
AttemptFails ==
    /\ pc = "attempt"
    /\ \E status_code \in Statuses \ {200} : DoAttempt(status_code, "")
    /\ UNCHANGED << ledgerVars, post_folder, null_file, history_file, now,
                    iter_index, raised_by, initial_items, last_flush,
                    last_save_results, n_calls >>

\* the search capability raises (GoogleSearch._request_search reads
\* status_code, which its except clause leaves unbound): only AssertionError
\* is caught, so the exception leaves generate_wordcloud
AttemptRaises ==
    /\ pc = "attempt"
    /\ pc' = "raised"
    /\ raised_by' = "request_wordcloud"
    /\ UNCHANGED << ledgerVars, items_to_search, cached_search_results,
                    cached_annotation, post_folder, null_file, history_file,
                    now, uuid_count, loopVars, initial_items, calls, slept,
                    appended, last_flush, last_save_results, n_calls >>

SaveAnnotation ==
    /\ pc = "save_annotation"
    /\ \E posOk, nullOk \in BOOLEAN : DoSaveAnnotation(posOk, nullOk)
    /\ pc' = "save_search_results"
    /\ UNCHANGED << ledgerVars, items_to_search, cached_search_results,
                    history_file, now, uuid_count, loopVars, raised_by,
                    initial_items, calls, slept, appended, last_save_results,
                    n_calls >>

SaveSearchResults ==
    /\ pc = "save_search_results"
    /\ \E ok \in BOOLEAN :
          /\ DoSaveSearchResults(ok)
          /\ IF SaveSearchResultsOutcome(cached_search_results,
                                         history_file, ok).raised
             THEN pc' = "raised" /\ raised_by' = "save_search_results"
             ELSE pc' = "done" /\ UNCHANGED raised_by
    /\ UNCHANGED << ledgerVars, items_to_search, cached_annotation,
                    post_folder, null_file, now, uuid_count, loopVars,
                    initial_items, calls, slept, appended, last_flush, n_calls >>

Next ==
    \/ ForNext
    \/ AttemptSucceeds
    \/ AttemptFails
    \/ AttemptRaises
    \/ SaveAnnotation
    \/ SaveSearchResults
    \/ Tick

Spec == Init /\ [][Next]_vars

(***************************************************************************)
(* A caller that uses the DataManager directly: add_result and             *)
(* save_annotation in any order.                                           *)
(***************************************************************************)
InitDM ==
    /\ InitDataManager
    /\ sch = CatalogMixed
    /\ KA \in {StripDashes(h) : h \in DOMAIN uuid_history}
    /\ history_file = Absent
    /\ pc = "api"

\* the results such a caller hands to add_result: a success with or without
\* words, or a refused status
CallerKeys == {KA, KB}
CallerStatuses == {200, 503}

CallAddResult ==
    /\ pc = "api"
    /\ n_calls < MaxCalls
    /\ \E query \in CallerKeys, status_code \in CallerStatuses,
          word_counts \in WordCounts :
           LET search_result == RequestWordcloud(query, status_code, word_counts)
           IN  /\ DoAddResult(search_result)
               /\ n_calls' = IF search_result.status_code \in RateLimitStatuses
                             THEN n_calls ELSE n_calls + 1
    /\ UNCHANGED << ledgerVars, items_to_search, post_folder, null_file,
                    history_file, now, pc, loopVars, raised_by, initial_items,
                    calls, slept, last_flush, last_save_results >>

CallSaveAnnotation ==
    /\ pc = "api"
    /\ n_calls < MaxCalls
    /\ n_calls' = n_calls + 1
    /\ \E posOk, nullOk \in BOOLEAN : DoSaveAnnotation(posOk, nullOk)
    /\ UNCHANGED << ledgerVars, items_to_search, cached_search_results,
                    history_file, now, uuid_count, pc, loopVars, raised_by,
                    initial_items, calls, slept, appended, last_save_results >>

NextDM ==
    \/ CallAddResult
    \/ CallSaveAnnotation
    \/ Tick

SpecDM == InitDM /\ [][NextDM]_vars

(***************************************************************************)
(* Successive runs of such a caller over the same local folders: the       *)
(* process ends, and the next one constructs a new DataManager, which      *)
(* loads the ledger again.                                                 *)
(***************************************************************************)
\* states of the cloud AnnotationNull.xlsx, the optional null source
CloudNullSources == { Absent, File(<<HistRow(2, KB, 0 - 1)>>) }

\* fetch_annotation: "if exists(cloud_null_annotation_file): copyfile(...)"
\* replaces the local AnnotationNull.xlsx by the cloud one
CopyNullSource(cloud_null_file, local_null_file) ==
    IF cloud_null_file.exists THEN cloud_null_file ELSE local_null_file

InitRuns ==
    /\ InitDataManager
    /\ sch = CatalogMixed
    /\ history_file = Absent
    /\ pc = "api"

\* the process ends; what it held in memory is gone with it
ExitRun ==
    /\ pc = "api"
    /\ n_calls < MaxCalls
    /\ pc' = "exited"
    /\ UNCHANGED << ledgerVars, items_to_search, cached_search_results,
                    cached_annotation, post_folder, null_file, history_file,
                    now, uuid_count, loopVars, raised_by, initial_items, calls,
                    slept, appended, last_flush, last_save_results, n_calls >>

\* DataManager.__init__ of the next run
StartRun ==
    /\ pc = "exited"
    /\ n_calls < MaxCalls
    /\ n_calls' = n_calls + 1
    /\ \E positive \in PositiveSources, cloud_null \in CloudNullSources :
          /\ cloud_annotation_file' = File(positive)
          /\ cloud_null_annotation_file' = cloud_null
          /\ local_annotation_file' = File(positive)
          /\ null_file' = CopyNullSource(cloud_null, null_file)
          /\ annotation' = FetchAnnotation(positive, null_file')
    /\ uuid_history' = GetUuidHistory(annotation')
    /\ items_to_search' \in
           ShuffleIf(shuffle,
                     GetItemsToSearch(sch, annotation', category, grace_period))
    /\ cached_search_results' = <<>>
    /\ cached_annotation' = <<>>
    /\ initial_items' = items_to_search'
    /\ last_flush' = FlushNotCalled
    /\ last_save_results' = SaveResultsNotCalled
    /\ pc' = "api"
    /\ UNCHANGED << sch, category, grace_period, shuffle, catalogVars, raceVars,
                    post_folder, history_file, now, uuid_count, loopVars,
                    raised_by, calls, slept, appended >>

NextRuns ==
    \/ CallAddResult
    \/ CallSaveAnnotation
    \/ Tick
    \/ ExitRun
    \/ StartRun

SpecRuns == InitRuns /\ [][NextRuns]_vars

(***************************************************************************)
(* SpecRoundTrip: the successive runs of SpecRuns without the clock, which *)
(* only names the files of the post folder.                                *)
(***************************************************************************)
NextRoundTrip ==
    \/ CallAddResult
    \/ CallSaveAnnotation
    \/ ExitRun
    \/ StartRun

SpecRoundTrip == InitRuns /\ [][NextRoundTrip]_vars

(***************************************************************************)
(* get_items_to_search called on a DataManager whose catalog and ledger    *)
(* are any of a bounded set, with any category, grace period and shuffle   *)
(* flag.                                                                   *)
(***************************************************************************)
\* a number of two characters, and the same number written with a separator
KAB == <<"A", "B">>
KAdB == <<"A", "-", "B">>

\* rows of the catalog: three numbers of category 2 homologated 181 or 180
\* days ago, one homologated today, one of category 1
ResolveSchRows ==
    { SchRow(k, d, 2) : k \in {KA, KAB, KAdB}, d \in {OldDay, RecentDay} }
    \cup { SchRow(KA, Today, 2), SchRow(KA, OldDay, 1) }

\* rows of the ledger: Homologacao as format_annotation writes it, or as
\* the bare number
ResolveLedgerRows ==
    { HistRow(1, KA, 1), HistRow(2, KAB, 0 - 1),
      [HistRow(3, KAB, 1) EXCEPT !.Homologacao = KAB] }

SeqsUpTo(S, n) == UNION { [1..m -> S] : m \in 0..n }

ResolveCatalogs == SeqsUpTo(ResolveSchRows, MaxRows)
\* a ledger with two rows of one key, written in both forms
RepeatedKeyLedger ==
    << HistRow(2, KAB, 0 - 1), [HistRow(3, KAB, 1) EXCEPT !.Homologacao = KAB] >>
ResolveLedgers ==
    SeqsUpTo(ResolveLedgerRows, MaxLedgerRows) \cup {RepeatedKeyLedger}
\* 0 stands for any category that is none of 1, 2, 3
Categories == {0, 1, 2}
GracePeriods == {0 - 1, 0, DefaultGracePeriod, DefaultGracePeriod + 1}

InitResolve ==
    /\ SchFetched
    /\ SingleProcess
    /\ sch \in ResolveCatalogs
    /\ annotation \in ResolveLedgers
    /\ cloud_annotation_file = File(annotation)
    /\ cloud_null_annotation_file = Absent
    /\ local_annotation_file = File(annotation)
    /\ uuid_history = GetUuidHistory(annotation)
    /\ category \in Categories
    /\ grace_period \in GracePeriods
    /\ shuffle \in BOOLEAN
    /\ items_to_search = <<>>
    /\ cached_search_results = <<>>
    /\ cached_annotation = <<>>
    /\ post_folder = EmptyFolder
    /\ null_file = Absent
    /\ history_file = Absent
    /\ now = 0
    /\ uuid_count = 0
    /\ pc = "resolve"
    /\ iter_index = 0
    /\ search_term = NoItem
    /\ attempt = 0
    /\ raised_by = "none"
    /\ initial_items = <<>>
    /\ calls = <<>>
    /\ slept = [k \in Keys |-> 0]
    /\ appended = <<>>
    /\ last_flush = FlushNotCalled
    /\ last_save_results = SaveResultsNotCalled
    /\ n_calls = 0

Resolve ==
    /\ pc = "resolve"
    /\ items_to_search' \in
           ShuffleIf(shuffle,
                     GetItemsToSearch(sch, annotation, category, grace_period))
    /\ pc' = "resolved"
    /\ UNCHANGED << ledgerVars, cached_search_results, cached_annotation,
                    post_folder, null_file, history_file, now, uuid_count,
                    loopVars, raised_by, initial_items, calls, slept, appended,
                    last_flush, last_save_results, n_calls >>

\* a second call with the same arguments, on the same day; initial_items
\* keeps what the first call returned.  The method assigns neither
\* self.sch nor self.annotation
ResolveAgain ==
    /\ pc = "resolved"
    /\ initial_items' = items_to_search
    /\ items_to_search' \in
           ShuffleIf(shuffle,
                     GetItemsToSearch(sch, annotation, category, grace_period))
    /\ pc' = "resolved twice"
    /\ UNCHANGED << ledgerVars, cached_search_results, cached_annotation,
                    post_folder, null_file, history_file, now, uuid_count,
                    loopVars, raised_by, calls, slept, appended,
                    last_flush, last_save_results, n_calls >>

NextResolve ==
    \/ Resolve
    \/ ResolveAgain

SpecResolve == InitResolve /\ [][NextResolve]_vars

(***************************************************************************)
(* SpecSch: fetch_sch_database and _download_sch_database, over the states *)
(* of the local catalog copy and the arguments of the call.                *)
(***************************************************************************)
RetryArguments == {0, 1, DefaultRetries}
SchHomes == {"dir", "missing", "not a dir"}
LocalCopies ==
    {NoLocalCopy, LocalCopy("old", DownloadGracePeriod),
     LocalCopy("old", DownloadGracePeriod + 1)}

\* what read_csv finds in a copy of the catalog
SchContents(content) == IF content = "new" THEN CatalogMixed ELSE CatalogPlain

RefreshDecision_IgnoresForce(file, args) ==
    IF file.exists
    THEN IF file.age > args.download_grace_period THEN "download" ELSE "local"
    ELSE IF args.download_if_missing THEN "download" ELSE "raise"

\* the branches of fetch_sch_database on the local copy
RefreshDecision(file, args) ==
    IF file.exists
    THEN IF file.age > args.download_grace_period THEN "download"
         ELSE IF args.force_download THEN "download"
         ELSE "local"
    ELSE IF args.download_if_missing THEN "download" ELSE "raise"

\* the handler of URLError and TimeoutError, on the remaining n_retries
OnNetworkError(n) == IF n = 0 THEN "retry" ELSE "raise"

AfterFailedDownload_KeepsPart(file, part) == [sch_file |-> file, part_file |-> part]

\* the outer handler: the temporary file is unlinked and the error re-raised
AfterFailedDownload(file, part) == [sch_file |-> file, part_file |-> "none"]

InitSch ==
    /\ fetch_args \in
           [home : SchHomes, download_if_missing : BOOLEAN,
            download_grace_period : {DownloadGracePeriod},
            force_download : BOOLEAN, n_retries : RetryArguments,
            delay : {RetryDelay}]
    /\ sch_file \in LocalCopies
    /\ sch_file.exists => fetch_args.home = "dir"
    /\ part_file = "none"
    /\ n_retries = fetch_args.n_retries
    /\ download_log = NoDownload
    /\ SingleProcess
    /\ cloud_annotation_file = File(<<>>)
    /\ cloud_null_annotation_file = Absent
    /\ local_annotation_file = Absent
    /\ sch = << >>
    /\ annotation = << >>
    /\ uuid_history = << >>
    /\ items_to_search = << >>
    /\ category = DefaultCategory
    /\ grace_period = DefaultGracePeriod
    /\ shuffle = TRUE
    /\ cached_search_results = << >>
    /\ cached_annotation = << >>
    /\ post_folder = EmptyFolder
    /\ null_file = Absent
    /\ history_file = Absent
    /\ now = 0
    /\ uuid_count = 0
    /\ pc = "fetch_sch"
    /\ iter_index = 0
    /\ search_term = NoItem
    /\ attempt = 0
    /\ raised_by = "none"
    /\ initial_items = << >>
    /\ calls = << >>
    /\ slept = [k \in Keys |-> 0]
    /\ appended = << >>
    /\ last_flush = FlushNotCalled
    /\ last_save_results = SaveResultsNotCalled
    /\ n_calls = 0

schFrame ==
    << sourceVars, raceVars, annotation, uuid_history, items_to_search, category, grace_period,
       shuffle, cached_search_results, cached_annotation, post_folder,
       null_file, history_file, now, uuid_count, iter_index, search_term,
       attempt, initial_items, calls, slept, appended, last_flush,
       last_save_results, n_calls >>

\* fetch_sch_database up to its call of _download_sch_database
FetchSchDatabase ==
    /\ pc = "fetch_sch"
    /\ IF fetch_args.home # "dir"
       THEN pc' = "raised" /\ raised_by' = "fetch_sch_database"
       ELSE LET decision == RefreshDecision(sch_file, fetch_args) IN
            /\ pc' = CASE decision = "download" -> "download"
                       [] decision = "local" -> "read"
                       [] OTHER -> "raised"
            /\ raised_by' = IF decision = "raise" THEN "fetch_sch_database"
                            ELSE raised_by
    /\ UNCHANGED << sch, catalogVars, schFrame >>

\* _download_sch_database: makedirs and the closed NamedTemporaryFile
CreatePartFile ==
    /\ pc = "download"
    /\ part_file' = "empty"
    /\ n_retries' = fetch_args.n_retries
    /\ pc' = "urlretrieve"
    /\ UNCHANGED << sch, fetch_args, sch_file, download_log, raised_by, schFrame >>

\* urlretrieve returns: the loop breaks
UrlretrieveSucceeds ==
    /\ pc = "urlretrieve"
    /\ part_file' = "complete"
    /\ download_log' = [download_log EXCEPT !.attempts = @ + 1]
    /\ pc' = "move"
    /\ UNCHANGED << sch, fetch_args, sch_file, n_retries, raised_by, schFrame >>

\* urlretrieve raises URLError or TimeoutError, with whatever it had written
UrlretrieveNetworkError ==
    /\ pc = "urlretrieve"
    /\ \E written \in {"empty", "partial"} :
        IF OnNetworkError(n_retries) = "retry"
        THEN /\ part_file' = written
             /\ n_retries' = n_retries - 1
             /\ download_log' = [attempts |-> download_log.attempts + 1,
                                 slept |-> download_log.slept + fetch_args.delay]
             /\ pc' = "urlretrieve"
             /\ UNCHANGED << sch_file, raised_by >>
        ELSE LET after == AfterFailedDownload(sch_file, written) IN
             /\ part_file' = after.part_file
             /\ sch_file' = after.sch_file
             /\ download_log' = [download_log EXCEPT !.attempts = @ + 1]
             /\ pc' = "raised"
             /\ raised_by' = "_download_sch_database"
             /\ UNCHANGED n_retries
    /\ UNCHANGED << sch, fetch_args, schFrame >>

\* urlretrieve raises anything else: only the outer handler runs
UrlretrieveOtherError ==
    /\ pc = "urlretrieve"
    /\ \E written \in {"empty", "partial"} :
        LET after == AfterFailedDownload(sch_file, written) IN
        /\ part_file' = after.part_file
        /\ sch_file' = after.sch_file
    /\ download_log' = [download_log EXCEPT !.attempts = @ + 1]
    /\ pc' = "raised"
    /\ raised_by' = "urlretrieve"
    /\ UNCHANGED << sch, fetch_args, n_retries, schFrame >>

\* shutil.move of the temporary file onto the local copy
MovePartFile ==
    /\ pc = "move"
    /\ sch_file' = LocalCopy("new", 0)
    /\ part_file' = "none"
    /\ pc' = "read"
    /\ UNCHANGED << sch, fetch_args, n_retries, download_log, raised_by, schFrame >>

\* read_csv of the local copy
ReadSch ==
    /\ pc = "read"
    /\ sch' = SchContents(sch_file.content)
    /\ pc' = "loaded"
    /\ UNCHANGED << catalogVars, raised_by, schFrame >>

NextSch ==
    \/ FetchSchDatabase
    \/ CreatePartFile
    \/ UrlretrieveSucceeds
    \/ UrlretrieveNetworkError
    \/ UrlretrieveOtherError
    \/ MovePartFile
    \/ ReadSch

SpecSch == InitSch /\ [][NextSch]_vars

(***************************************************************************)
(* SpecLoad: the ledger load of DataManager.__init__, over the states of   *)
(* the cloud annotation folder and of the local annotation folder.         *)
(***************************************************************************)
\* a row of Annotation.xlsx of another attribute
OtherAttributeRow == [HistRow(3, KC, 1) EXCEPT !.Atributo = "Other"]

LoadPositiveSources ==
    { Absent, File(<<>>), File(<<HistRow(1, KA, 1)>>),
      File(<<HistRow(1, KA, 1), OtherAttributeRow>>) }
LocalPositiveCopies == { Absent, File(<<HistRow(4, KC, 1)>>) }
LocalNullFiles == NullFiles \cup { File(<<HistRow(5, KC, 0 - 1)>>) }

InitLoad ==
    /\ SchFetched
    /\ SingleProcess
    /\ sch \in Catalogs
    /\ cloud_annotation_file \in LoadPositiveSources
    /\ cloud_null_annotation_file \in CloudNullSources
    /\ local_annotation_file \in LocalPositiveCopies
    /\ null_file \in LocalNullFiles
    /\ annotation = << >>
    /\ uuid_history = << >>
    /\ items_to_search = << >>
    /\ category = DefaultCategory
    /\ grace_period = DefaultGracePeriod
    /\ shuffle = TRUE
    /\ cached_search_results = << >>
    /\ cached_annotation = << >>
    /\ post_folder = EmptyFolder
    /\ history_file = Absent
    /\ now = 0
    /\ uuid_count = 0
    /\ pc = "fetch_annotation"
    /\ iter_index = 0
    /\ search_term = NoItem
    /\ attempt = 0
    /\ raised_by = "none"
    /\ initial_items = << >>
    /\ calls = << >>
    /\ slept = [k \in Keys |-> 0]
    /\ appended = << >>
    /\ last_flush = FlushNotCalled
    /\ last_save_results = SaveResultsNotCalled
    /\ n_calls = 0

loadFrame ==
    << sch, catalogVars, raceVars, category, grace_period, shuffle, cached_search_results,
       cached_annotation, post_folder, history_file, now, uuid_count,
       iter_index, search_term, attempt, calls, slept, appended, last_flush,
       last_save_results, n_calls >>

\* fetch_annotation(cloud_annotation_get_folder, annotation_data_home)
CallFetchAnnotation ==
    /\ pc = "fetch_annotation"
    /\ IF ~cloud_annotation_file.exists
       THEN /\ pc' = "raised"
            /\ raised_by' = "fetch_annotation"
            /\ UNCHANGED << local_annotation_file, null_file, annotation >>
       ELSE /\ local_annotation_file' = cloud_annotation_file
            /\ null_file' = CopyNullSource(cloud_null_annotation_file, null_file)
            /\ annotation' = FetchAnnotation(local_annotation_file'.rows, null_file')
            /\ pc' = "fetched"
            /\ UNCHANGED raised_by
    /\ UNCHANGED << cloud_annotation_file, cloud_null_annotation_file,
                    uuid_history, items_to_search, initial_items, loadFrame >>

\* the rest of DataManager.__init__: the lookup and the worklist
ResolveAfterFetch ==
    /\ pc = "fetched"
    /\ uuid_history' = GetUuidHistory(annotation)
    /\ items_to_search' \in
           ShuffleIf(shuffle,
                     GetItemsToSearch(sch, annotation, category, grace_period))
    /\ initial_items' = items_to_search'
    /\ pc' = "api"
    /\ UNCHANGED << sourceVars, null_file, annotation, raised_by, loadFrame >>

NextLoad == CallFetchAnnotation \/ ResolveAfterFetch

SpecLoad == InitLoad /\ [][NextLoad]_vars

(***************************************************************************)
(* SpecRace: two processes call DataManager.save_annotation against the    *)
(* same local annotation folder.  Nothing serializes them: the read of     *)
(* AnnotationNull.xlsx and its rewrite are separate steps of each.         *)
(***************************************************************************)
\* the record process p has pending for key, made by its own add_result
PendingRecord(p, key, word_counts) ==
    FormatAnnotation(RequestWordcloud(key, 200, word_counts), << >>, p, 0)

\* each process ran on its own worklist: the first has a null record of KA
\* pending, the second one of KB, with or without a positive record of KC
RacePendings(p) ==
    LET key == IF p = 1 THEN KA ELSE KB
    IN  { <<PendingRecord(p, key, "")>>,
          <<PendingRecord(p, key, ""), PendingRecord(p + 2, KC, "w")>>,
          <<PendingRecord(p + 2, KC, "w"), PendingRecord(p, key, "")>>,
          <<PendingRecord(p + 2, KC, "w")>> }

InitRace ==
    /\ SchFetched
    /\ sch = CatalogPlain
    /\ cloud_annotation_file = File(<< >>)
    /\ cloud_null_annotation_file = Absent
    /\ local_annotation_file = File(<< >>)
    /\ annotation = << >>
    /\ uuid_history = << >>
    /\ items_to_search = << >>
    /\ category = DefaultCategory
    /\ grace_period = DefaultGracePeriod
    /\ shuffle = TRUE
    /\ null_file \in LocalNullFiles
    /\ flush_pending \in [Procs -> UNION {RacePendings(p) : p \in Procs}]
    /\ \A p \in Procs : flush_pending[p] \in RacePendings(p)
    /\ flush_pc = [p \in Procs |-> "save_annotation"]
    /\ flush_read = [p \in Procs |-> Absent]
    /\ flush_log = << >>
    /\ cached_search_results = << >>
    /\ cached_annotation = << >>
    /\ post_folder = EmptyFolder
    /\ history_file = Absent
    /\ now = 0
    /\ uuid_count = 0
    /\ pc = "api"
    /\ iter_index = 0
    /\ search_term = NoItem
    /\ attempt = 0
    /\ raised_by = "none"
    /\ initial_items = << >>
    /\ calls = << >>
    /\ slept = [k \in Keys |-> 0]
    /\ appended = << >>
    /\ last_flush = FlushNotCalled
    /\ last_save_results = SaveResultsNotCalled
    /\ n_calls = 0

raceFrame ==
    << sch, annotation, uuid_history, category, grace_period, shuffle,
       catalogVars, sourceVars, items_to_search, cached_search_results,
       cached_annotation, history_file, now, uuid_count, pc, loopVars,
       raised_by, initial_items, calls, slept, appended, last_flush,
       last_save_results, n_calls >>

\* save_annotation of process p up to the read of AnnotationNull.xlsx:
\* save_cloud_annotation, the Situacao = -1 filter, exists and read_excel
ReadNullHistory(p) ==
    /\ flush_pc[p] = "save_annotation"
    /\ \E posOk \in BOOLEAN :
        LET cloud == SaveCloudAnnotation(flush_pending[p], post_folder, now, posOk)
        IN  /\ post_folder' = cloud.folder
            /\ IF cloud.raised
               THEN /\ flush_pc' = [flush_pc EXCEPT ![p] = "failed"]
                    /\ UNCHANGED << flush_read, flush_pending, flush_log >>
               ELSE IF NullRows(flush_pending[p]) = << >>
               THEN /\ flush_pc' = [flush_pc EXCEPT ![p] = "done"]
                    /\ flush_pending' = [flush_pending EXCEPT ![p] = << >>]
                    /\ UNCHANGED << flush_read, flush_log >>
               ELSE /\ flush_pc' = [flush_pc EXCEPT ![p] = "read"]
                    /\ flush_read' = [flush_read EXCEPT ![p] = null_file]
                    /\ flush_log' = Append(flush_log, [proc |-> p, what |-> "read",
                                                   rows |-> NullRows(flush_pending[p])])
                    /\ UNCHANGED flush_pending
    /\ UNCHANGED << null_file, raceFrame >>

\* the rest of save_annotation of process p: concat, drop_duplicates and
\* to_excel of what it read, then the buffer is cleared
WriteNullAnnotation(p) ==
    /\ flush_pc[p] = "read"
    /\ \E nullOk \in BOOLEAN :
        LET null == UpdateNullAnnotation(flush_pending[p], flush_read[p], nullOk)
        IN  IF null.raised
            THEN /\ flush_pc' = [flush_pc EXCEPT ![p] = "failed"]
                 /\ UNCHANGED << null_file, flush_pending, flush_log >>
            ELSE /\ null_file' = null.file
                 /\ flush_pc' = [flush_pc EXCEPT ![p] = "done"]
                 /\ flush_pending' =
                        [flush_pending EXCEPT ![p] = BufferAfterSave(@, FALSE)]
                 /\ flush_log' = Append(flush_log, [proc |-> p, what |-> "write",
                                                rows |-> NullRows(flush_pending[p])])
    /\ UNCHANGED << flush_read, post_folder, raceFrame >>

NextRace == \E p \in Procs : ReadNullHistory(p) \/ WriteNullAnnotation(p)

SpecRace == InitRace /\ [][NextRace]_vars

(***************************************************************************)
(* SpecApi: a caller that holds a DataManager and calls its four public    *)
(* methods after construction, in any order.                               *)
(***************************************************************************)
InitApi ==
    /\ InitDM
    /\ null_file = Absent

\* fault variant: the separators are stripped in self.annotation itself
CallGetItemsToSearch_NormalizesInPlace ==
    /\ pc = "api"
    /\ n_calls < MaxCalls
    /\ n_calls' = n_calls + 1
    /\ annotation' =
           [i \in 1..Len(annotation) |->
                [annotation[i] EXCEPT !.Homologacao = StripDashes(@)]]
    /\ \E c \in Categories, g \in {0, DefaultGracePeriod}, flag \in BOOLEAN :
           initial_items' \in ShuffleIf(flag, GetItemsToSearch(sch, annotation, c, g))
    /\ UNCHANGED << sch, uuid_history, category, grace_period, shuffle,
                    catalogVars, sourceVars, raceVars, items_to_search,
                    cached_search_results, cached_annotation, post_folder,
                    null_file, history_file, now, uuid_count, pc, loopVars,
                    raised_by, calls, slept, appended, last_flush,
                    last_save_results >>

\* get_items_to_search(category, grace_period, shuffle): the list goes to
\* the caller (kept in initial_items), the DataManager is not assigned
CallGetItemsToSearch ==
    /\ pc = "api"
    /\ n_calls < MaxCalls
    /\ n_calls' = n_calls + 1
    /\ \E c \in Categories, g \in {0, DefaultGracePeriod}, flag \in BOOLEAN :
           initial_items' \in ShuffleIf(flag, GetItemsToSearch(sch, annotation, c, g))
    /\ UNCHANGED << ledgerVars, items_to_search, cached_search_results,
                    cached_annotation, post_folder, null_file, history_file,
                    now, uuid_count, pc, loopVars, raised_by, calls, slept,
                    appended, last_flush, last_save_results >>

\* save_search_results(): an OSError it raises goes to the caller
CallSaveSearchResults ==
    /\ pc = "api"
    /\ n_calls < MaxCalls
    /\ n_calls' = n_calls + 1
    /\ \E ok \in BOOLEAN : DoSaveSearchResults(ok)
    /\ UNCHANGED << ledgerVars, items_to_search, cached_annotation, post_folder,
                    null_file, now, uuid_count, pc, loopVars, raised_by,
                    initial_items, calls, slept, appended, last_flush >>

NextApi ==
    \/ CallAddResult
    \/ CallSaveAnnotation
    \/ CallSaveSearchResults
    \/ CallGetItemsToSearch

SpecApi == InitApi /\ [][NextApi]_vars

(***************************************************************************)
(* Observations the properties are stated on.                              *)
(***************************************************************************)
\* the statuses the search capability answered for key k, in order
Responses(k) ==
    LET mine == SelectSeq(calls, LAMBDA c : c[1] = k)
    IN  [i \in 1..Len(mine) |-> mine[i][2]]

Attempts(k) == Len(Responses(k))

\* the annotations appended for key k since the start
AppendedFor(k) == SelectSeq(appended, LAMBDA r : r.Valor.searchedWord = k)

AllNon200(r) == \A i \in 1..Len(r) : r[i] # 200

\* the for loop of generate_wordcloud is over: by exhaustion or by break
LoopEnded ==
    \/ pc \in {"save_annotation", "save_search_results", "done"}
    \/ pc = "raised" /\ raised_by = "save_search_results"

\* generate_wordcloud is over: it returned, or save_search_results raised
RunEnded ==
    \/ pc = "done"
    \/ pc = "raised" /\ raised_by = "save_search_results"

FlushFailed(report) == report.positive = "failed" \/ report.null = "failed"
\* the last save_annotation ran its writes and none failed
FlushSucceeded(report) ==
    /\ report.positive \in {"written", "nothing"}
    /\ report.null \in {"written", "nothing"}

\* how often annotation record a was appended, and the files of the cloud
\* post folder that hold it
AppendedCount(a) == Cardinality({i \in 1..Len(appended) : appended[i] = a})
ArtifactsHolding(a) == {f \in DOMAIN post_folder : a \in Range(post_folder[f])}

NoDuplicateIDs(rows) ==
    \A i, j \in 1..Len(rows) : rows[i].ID = rows[j].ID => i = j

\* annotation record a is in a persisted artifact of its outcome
Persisted(a) ==
    IF a.Situacao = 1
    THEN \E f \in DOMAIN post_folder : a \in Range(post_folder[f])
    ELSE null_file.exists /\ a \in Range(null_file.rows)

(***************************************************************************)
(* C1.  Global-stop scenario: with the worklist [A, B, C] and a search     *)
(* capability that answers 200 on A and C and 503 on B, the run searches   *)
(* A, whose annotation is flushed, never searches C, and ends with the     *)
(* worklist [B, C].                                                        *)
(***************************************************************************)
C1_GlobalStopScenario ==
    ( /\ pc = "done"
      /\ initial_items = <<KA, KB, KC>>
      /\ \A i \in 1..Len(calls) :
             calls[i][2] = IF calls[i][1] = KB THEN 503 ELSE 200
      /\ FlushSucceeded(last_flush) )
    => /\ Attempts(KA) = 1
       /\ \A a \in Range(AppendedFor(KA)) : Persisted(a)
       /\ Len(AppendedFor(KA)) = 1
       /\ Attempts(KC) = 0
       /\ items_to_search = <<KB, KC>>

(***************************************************************************)
(* C2.  In a run where every search is answered with 200, every key of the *)
(* initial worklist is searched exactly once, gets exactly one annotation, *)
(* and the worklist is empty when the run ends.                            *)
(***************************************************************************)
C2_EveryKeySearchedOnce ==
    ( /\ pc = "done"
      /\ \A i \in 1..Len(calls) : calls[i][2] = 200 )
    => /\ \A k \in Range(initial_items) :
              Attempts(k) = 1 /\ Len(AppendedFor(k)) = 1
       /\ items_to_search = <<>>

(***************************************************************************)
(* C3.  A 429 or 503 answer is not retried: the key is attempted once, no  *)
(* sleep happens for it, and the run stops at once (no search follows it), *)
(* the worklist being left as it is.                                       *)
(***************************************************************************)
C3_RateLimitNotRetried ==
    \A i \in 1..Len(calls) :
        calls[i][2] \in RateLimitStatuses
        => /\ i = Len(calls)
           /\ Attempts(calls[i][1]) = 1
           /\ slept[calls[i][1]] = 0
           /\ LoopEnded

(***************************************************************************)
(* C4.  Retry scenario: a key answered with a non-200 status k times       *)
(* (k < SEARCH_RETRIES) and then with 200 has exactly one annotation, is   *)
(* no longer in the worklist, and exactly k delays were slept for it.      *)
(***************************************************************************)
C4_RetryThenSuccess ==
    \A key \in Keys :
        LET r == Responses(key)
        IN  (r # <<>> /\ r[Len(r)] = 200)
            => /\ Len(r) <= SEARCH_RETRIES
               /\ AllNon200(SubSeq(r, 1, Len(r) - 1))
               /\ Len(AppendedFor(key)) = 1
               /\ key \notin Range(items_to_search)
               /\ slept[key] = (Len(r) - 1) * SEARCH_ATTEMPT_INTERVAL_TIMEOUT

\* a key failed twice with 500, then succeeded: two delays, one annotation
C4_Witness ==
    \E key \in Keys :
        /\ Responses(key) = <<500, 500, 200>>
        /\ slept[key] = 2 * SEARCH_ATTEMPT_INTERVAL_TIMEOUT
        /\ Len(AppendedFor(key)) = 1
        /\ key \in Range(initial_items)
        /\ key \notin Range(items_to_search)

(***************************************************************************)
(* C5.  A key is searched at most SEARCH_RETRIES times; when every attempt *)
(* is answered with a non-200 status the item is exhausted: no annotation  *)
(* is appended for it, it stays in the worklist, and no sleep follows the  *)
(* last failed attempt.                                                    *)
(***************************************************************************)
C5_BoundedAttempts ==
    \A key \in Keys :
        LET r == Responses(key)
        IN  /\ Len(r) <= SEARCH_RETRIES
            /\ (r # <<>> /\ AllNon200(r))
               => /\ AppendedFor(key) = <<>>
                  /\ key \in Range(items_to_search)
                  /\ slept[key] <= (SEARCH_RETRIES - 1) *
                                       SEARCH_ATTEMPT_INTERVAL_TIMEOUT
                  /\ (search_term # key =>
                         /\ Len(r) = SEARCH_RETRIES
                         /\ slept[key] = (Len(r) - 1) *
                                             SEARCH_ATTEMPT_INTERVAL_TIMEOUT)

\* a key used up its three attempts and the loop stopped on it
C5_Witness ==
    \E key \in Keys :
        /\ Responses(key) = <<500, 503, 500>>
        /\ pc = "save_annotation"
        /\ key \in Range(items_to_search)
        /\ slept[key] = 2 * SEARCH_ATTEMPT_INTERVAL_TIMEOUT

(***************************************************************************)
(* C6.  Whenever the for loop of generate_wordcloud ends, by exhaustion of *)
(* the worklist or by break, save_annotation and then save_search_results  *)
(* are executed; save_annotation is handed every annotation appended       *)
(* during the run and, its writes not failing, leaves all of them in the   *)
(* persisted artifacts and the buffer empty.                               *)
(***************************************************************************)
C6_FlushAfterLoop ==
    /\ LoopEnded /\ pc # "save_annotation"
       => /\ last_flush # FlushNotCalled
          /\ last_flush.before = appended
    /\ RunEnded => last_save_results # SaveResultsNotCalled
    /\ (RunEnded /\ ~FlushFailed(last_flush))
       => /\ cached_annotation = <<>>
          /\ \A a \in Range(appended) : Persisted(a)

\* a run stopped early by an exhausted key after an annotation was appended
C6_Witness ==
    /\ pc = "done"
    /\ items_to_search # <<>>
    /\ \E key \in Keys : Attempts(key) = SEARCH_RETRIES /\ AllNon200(Responses(key))
    /\ appended # <<>>
    /\ last_flush.before = appended
    /\ \A a \in Range(appended) : Persisted(a)

(***************************************************************************)
(* C7.  The pending annotation buffer is cleared only by a save_annotation *)
(* whose two writes both succeed: a step that changes it otherwise than by *)
(* appending is a save_annotation that reports no failed write, and it     *)
(* empties the buffer; so a flush with a failed write leaves the buffer as *)
(* it was.                                                                 *)
(***************************************************************************)
C7_BufferKeptUnlessFlushed ==
    [][ (cached_annotation' # cached_annotation /\
         Len(cached_annotation') <= Len(cached_annotation))
        => /\ cached_annotation' = <<>>
           /\ last_flush'.before = cached_annotation
           /\ FlushSucceeded(last_flush') ]_vars

\* the positive write succeeded, the null write failed, the buffer is kept
C7_Witness ==
    /\ last_flush.positive = "written"
    /\ last_flush.null = "failed"
    /\ last_flush.before # <<>>
    /\ cached_annotation = last_flush.before

(***************************************************************************)
(* C8.  A write that fails during save_annotation is raised to the caller  *)
(* of save_annotation as an error.                                         *)
(***************************************************************************)
C8_WriteFailureRaised ==
    FlushFailed(last_flush) => last_flush.raised

(***************************************************************************)
(* C9.  Across any sequence of add_result and save_annotation calls, also  *)
(* when a flush is retried after a failed write, a positive annotation is  *)
(* persisted without duplication: it is in no more files of the cloud post *)
(* folder than the times it was appended (one file when appended once).    *)
(***************************************************************************)
C9_NoDuplicateWrites ==
    \A a \in Range(appended) :
        a.Situacao = 1 => Cardinality(ArtifactsHolding(a)) <= AppendedCount(a)

(***************************************************************************)
(* C10.  Dedup invariant: after every save_annotation whose writes         *)
(* succeeded, AnnotationNull.xlsx holds one row per distinct ID.           *)
(***************************************************************************)
C10_NullArtifactOneRowPerID ==
    (FlushSucceeded(last_flush) /\ null_file.exists)
    => NoDuplicateIDs(null_file.rows)

\* the IDs recorded in a spreadsheet
RowIDs(file) == {file.rows[i].ID : i \in 1..Len(file.rows)}

\* a step that is one call of DataManager.save_annotation: made by
\* generate_wordcloud, or by a direct caller
SaveAnnotationStep ==
    \/ pc = "save_annotation" /\ pc' = "save_search_results"
    \/ pc = "api" /\ pc' = "api" /\ n_calls' = n_calls + 1 /\ uuid_count' = uuid_count

(***************************************************************************)
(* C11.  At most one destination per outcome: the files of the cloud post  *)
(* folder hold positive records (Situacao = 1) only and AnnotationNull.xlsx*)
(* holds null records (Situacao = -1) only, so no appended positive record *)
(* is in the null artifact and no appended null record in a positive one.  *)
(***************************************************************************)
C11_OneDestinationPerOutcome ==
    /\ \A f \in DOMAIN post_folder :
           \A r \in Range(post_folder[f]) : r.Situacao = 1
    /\ \A r \in Range(null_file.rows) : r.Situacao = 0 - 1
    /\ \A a \in Range(appended) :
           /\ a.Situacao = 1 => a \notin Range(null_file.rows)
           /\ a.Situacao = 0 - 1 => ArtifactsHolding(a) = {}

\* one flush had records of both outcomes pending and wrote both artifacts
C11_Witness ==
    /\ last_flush.positive = "written"
    /\ last_flush.null = "written"
    /\ PositiveRows(last_flush.before) # <<>>
    /\ NullRows(last_flush.before) # <<>>
    /\ \E a \in Range(last_flush.before) : a.Situacao = 1 /\ Persisted(a)
    /\ \E a \in Range(last_flush.before) : a.Situacao = 0 - 1 /\ Persisted(a)

(***************************************************************************)
(* C12.  AnnotationNull.xlsx never shrinks across a successful flush:      *)
(* every ID recorded in it before a save_annotation whose writes did not   *)
(* fail is recorded in it after the call.                                  *)
(***************************************************************************)
C12_NullArtifactNeverShrinks ==
    [][ (SaveAnnotationStep /\ FlushSucceeded(last_flush'))
        => RowIDs(null_file) \subseteq RowIDs(null_file') ]_vars

\* a flush merged new null rows into a file that already had a row
C12_Witness ==
    /\ last_flush.null = "written"
    /\ null_file.exists
    /\ HistRow(2, KB, 0 - 1) \in Range(null_file.rows)
    /\ \E a \in Range(appended) :
           a.Situacao = 0 - 1 /\ a \in Range(null_file.rows)

(***************************************************************************)
(* C13.  A null annotation that a flush wrote to the local                 *)
(* AnnotationNull.xlsx is retained across runs: when the next run loads    *)
(* the ledger, whatever the state of the cloud null source, the record is  *)
(* in the merged ledger and its key is not in the worklist.                *)
(***************************************************************************)
C13_NullRetainedAcrossRuns ==
    [][ (pc = "exited" /\ pc' = "api")
        => \A r \in Range(null_file.rows) :
               (r \in Range(appended) /\ r.Situacao = 0 - 1)
               => /\ r \in Range(annotation')
                  /\ r.Valor.searchedWord \notin Range(items_to_search') ]_vars

(***************************************************************************)
(* C14.  Every save_annotation that writes positive records creates a new  *)
(* file in the cloud post folder, under a name no file there has, and      *)
(* leaves the files already there as they are, also when two flushes       *)
(* happen within the same clock second.                                    *)
(***************************************************************************)
C14_DistinctPositiveArtifacts ==
    [][ (SaveAnnotationStep /\ last_flush'.positive = "written")
        => /\ \E f \in DOMAIN post_folder' : f \notin DOMAIN post_folder
           /\ \A f \in DOMAIN post_folder : post_folder'[f] = post_folder[f]
      ]_vars

(***************************************************************************)
(* C15.  A flush with nothing pending is a no-op: save_annotation with an  *)
(* empty annotation buffer writes nothing to the cloud post folder and     *)
(* leaves AnnotationNull.xlsx as it is; save_search_results with an empty  *)
(* result cache leaves search_history.parquet as it is and returns.        *)
(***************************************************************************)
C15_EmptyFlushIsNoOp ==
    [][ /\ (SaveAnnotationStep /\ cached_annotation = <<>>)
           => /\ post_folder' = post_folder
              /\ null_file' = null_file
              /\ cached_annotation' = <<>>
        /\ (pc = "save_search_results" /\ pc' # pc /\
            cached_search_results = <<>>)
           => /\ history_file' = history_file
              /\ pc' = "done" ]_vars

\* a run that ended with nothing to save: neither method ran a write
C15_Witness ==
    /\ pc = "done"
    /\ last_flush.before = <<>>
    /\ last_flush.positive = "not run"
    /\ last_flush.null = "not run"
    /\ last_save_results.before = <<>>
    /\ last_save_results.write = "not run"
    /\ post_folder = EmptyFolder

(***************************************************************************)
(* Observations on the inputs of get_items_to_search.                      *)
(***************************************************************************)
\* the catalog rows of the category asked for (any row when it is none of
\* 1, 2, 3) and their numbers
InCategory(r) == category \in {1, 2, 3} => r.CategoriaDoProduto = category
CatalogKeys ==
    {sch[i].NumeroDeHomologacao : i \in {j \in 1..Len(sch) : InCategory(sch[j])}}

\* the first of these rows that has number k: the one deduplication keeps
FirstRowOf(k) ==
    LET idx == {i \in 1..Len(sch) :
                   InCategory(sch[i]) /\ sch[i].NumeroDeHomologacao = k}
    IN  sch[CHOOSE i \in idx : \A j \in idx : i <= j]

AgeDays(k) == Today - FirstRowOf(k).DataDaHomologacao

\* the keys of the ledger rows, separators stripped
LedgerKeys ==
    {StripDashes(annotation[i].Homologacao) : i \in 1..Len(annotation)}

Unannotated(k) == k \notin LedgerKeys

(***************************************************************************)
(* C16.  Anti-join correctness: whatever the catalog, the category and the *)
(* grace period, the normalized key (separators stripped) of a ledger row  *)
(* is not in the worklist get_items_to_search returns.                     *)
(***************************************************************************)
C16_AntiJoin ==
    pc = "resolved" => \A k \in LedgerKeys : k \notin Range(items_to_search)

\* the ledger row is written "AB--", the catalog has AB and A, both old
\* enough: A is returned, AB is not
C16_Witness ==
    /\ pc = "resolved"
    /\ HistRow(2, KAB, 0 - 1) \in Range(annotation)
    /\ grace_period > 0
    /\ {KA, KAB} \subseteq CatalogKeys
    /\ AgeDays(KA) > grace_period /\ AgeDays(KAB) > grace_period
    /\ KA \in Range(items_to_search)
    /\ KAB \notin Range(items_to_search)

(***************************************************************************)
(* C17.  Key normalization on both sides: a catalog key written with       *)
(* separators denotes the same identifier as the stripped one, so no key   *)
(* of the worklist, once stripped, is the key of a ledger row.             *)
(***************************************************************************)
C17_NormalizedOnBothSides ==
    pc = "resolved"
    => \A k \in Range(items_to_search) : StripDashes(k) \notin LedgerKeys

C22_RaisesAfterRetries ==
    raised_by = "_download_sch_database" =>
        /\ download_log.attempts >= fetch_args.n_retries
        /\ download_log.attempts <= fetch_args.n_retries + 1

(***************************************************************************)
(* C23.  A failed catalog download never changes the local copy: the bytes *)
(* go to a temporary sibling file, which replaces the local copy only      *)
(* after a complete download; when the download fails the temporary file   *)
(* is removed and the local copy is left as it was.                        *)
(***************************************************************************)
C23_FailedDownloadKeepsCopy ==
    [][ /\ sch_file' # sch_file =>
            (pc = "move" /\ part_file = "complete" /\ download_log.attempts > 0)
        /\ (pc = "urlretrieve" /\ pc' = "raised") =>
            (sch_file' = sch_file /\ part_file' = "none")
        /\ (pc = "urlretrieve" /\ pc' = "urlretrieve") => sch_file' = sch_file
      ]_vars

\* a download over an existing copy failed after bytes had been written
C23_Witness ==
    /\ pc = "raised"
    /\ raised_by \in {"_download_sch_database", "urlretrieve"}
    /\ download_log.attempts > 0
    /\ sch_file = LocalCopy("old", DownloadGracePeriod + 1)
    /\ part_file = "none"

(***************************************************************************)
(* C24.  Catalog refresh rule: with a local copy, fetch_sch_database       *)
(* downloads exactly when the age of the copy in days exceeds              *)
(* download_grace_period or force_download is set; without one, it         *)
(* downloads when download_if_missing is set and otherwise raises without  *)
(* attempting a download.                                                  *)
(***************************************************************************)
C24_RefreshRule ==
    [][ (pc = "fetch_sch" /\ fetch_args.home = "dir") =>
            IF sch_file.exists
            THEN /\ pc' = "download" <=>
                        \/ sch_file.age > fetch_args.download_grace_period
                        \/ fetch_args.force_download
                 /\ pc' # "download" => pc' = "read"
            ELSE /\ pc' = "download" <=> fetch_args.download_if_missing
                 /\ pc' # "download" =>
                        /\ pc' = "raised"
                        /\ raised_by' = "fetch_sch_database"
                        /\ download_log' = NoDownload
                        /\ part_file' = "none"
      ]_vars

\* a copy exactly download_grace_period days old was downloaded again
\* because force_download was set
C24_Witness ==
    /\ pc = "loaded"
    /\ fetch_args.force_download
    /\ fetch_args.download_grace_period = DownloadGracePeriod
    /\ sch_file = LocalCopy("new", 0)
    /\ download_log.attempts > 0

(***************************************************************************)
(* C25.  Ledger load: when the positive annotation source is absent,       *)
(* fetch_annotation raises and copies nothing into the local folder; when  *)
(* only the null source is absent the load succeeds and returns the rows   *)
(* of the positive source and nothing else.                                *)
(***************************************************************************)
WordCloudRows(rows) == SelectSeq(rows, LAMBDA r : r.Atributo = "WordCloud")

PositiveAbsentRaises ==
    (pc = "fetch_annotation" /\ ~cloud_annotation_file.exists) =>
        /\ pc' = "raised"
        /\ raised_by' = "fetch_annotation"
        /\ local_annotation_file' = local_annotation_file
        /\ null_file' = null_file

NullAbsentCase ==
    /\ pc = "fetch_annotation"
    /\ cloud_annotation_file.exists
    /\ ~cloud_null_annotation_file.exists

C25_LoadReturnsPositiveRows ==
    [][ /\ PositiveAbsentRaises
        /\ NullAbsentCase =>
            /\ pc' = "fetched"
            /\ annotation' = WordCloudRows(cloud_annotation_file.rows)
      ]_vars

\* C25, as the code has it: with the null source absent, the load succeeds
\* and returns the rows of the positive source followed by the rows of the
\* AnnotationNull.xlsx already in the local folder, if there is one.
C25_LoadReturnsPositiveAndLocalNull ==
    [][ /\ PositiveAbsentRaises
        /\ NullAbsentCase =>
            /\ pc' = "fetched"
            /\ null_file' = null_file
            /\ annotation' =
                   WordCloudRows(cloud_annotation_file.rows) \o
                   (IF null_file.exists THEN null_file.rows ELSE << >>)
      ]_vars

\* a load without null source that found a null artifact in the local folder
C25_Witness ==
    /\ pc = "fetched"
    /\ ~cloud_null_annotation_file.exists
    /\ cloud_annotation_file = File(<<HistRow(1, KA, 1), OtherAttributeRow>>)
    /\ null_file = File(<<HistRow(5, KC, 0 - 1)>>)
    /\ annotation = <<HistRow(1, KA, 1), HistRow(5, KC, 0 - 1)>>

\* a step that is one call of DataManager.add_result which the call accepted
AddResultStep == pc = "api" /\ pc' = "api" /\ uuid_count' = uuid_count + 1

\* the record such a step left at the end of the pending buffer
LastPending == cached_annotation'[Len(cached_annotation')]

(***************************************************************************)
(* C26.  append reuses the id: the record made for a key that has an id in *)
(* the lookup uuid_history carries that id, which is the id of a ledger    *)
(* row of the key; the record made for any other key carries a generated   *)
(* id that differs from every id of the lookup.                            *)
(***************************************************************************)
C26_IdReusedFromLookup ==
    [][ AddResultStep =>
            LET r == LastPending
                key == DashedForm(r.Valor.searchedWord)
            IN  /\ r.Homologacao = key
                /\ IF key \in DOMAIN uuid_history
                   THEN /\ r.ID = uuid_history[key]
                        /\ \E i \in 1..Len(annotation) :
                               /\ annotation[i].Homologacao = key
                               /\ annotation[i].ID = r.ID
                   ELSE \A h \in DOMAIN uuid_history : r.ID # uuid_history[h]
      ]_vars

\* the buffer holds a record with the ledger id of its key and a record of
\* a key without ledger row, with a generated id
C26_Witness ==
    \E i, j \in 1..Len(cached_annotation) :
        /\ cached_annotation[i].Homologacao \in DOMAIN uuid_history
        /\ cached_annotation[i].ID = uuid_history[cached_annotation[i].Homologacao]
        /\ cached_annotation[j].Homologacao \notin DOMAIN uuid_history
        /\ cached_annotation[j].ID[1] = "uuid4"

(***************************************************************************)
(* C27.  append classifies by the payload: a call of add_result that       *)
(* accepts its result adds exactly one record to the pending buffer, with  *)
(* Situacao = -1 when the cloud of words is empty and Situacao = 1 when it *)
(* is not, and leaves the post folder, AnnotationNull.xlsx and the search  *)
(* history as they were.                                                   *)
(***************************************************************************)
C27_AppendClassifiesAndBuffers ==
    [][ AddResultStep =>
            /\ cached_annotation' = Append(cached_annotation, LastPending)
            /\ LastPending.Situacao =
                   (IF LastPending.Valor.cloudOfWords = "" THEN 0 - 1 ELSE 1)
            /\ LastPending.Valor = cached_search_results'[Len(cached_search_results')].wordcloud
            /\ post_folder' = post_folder
            /\ null_file' = null_file
            /\ history_file' = history_file
      ]_vars

\* a null and a positive record are pending and nothing has been written
C27_Witness ==
    /\ Len(cached_annotation) = 2
    /\ cached_annotation[1].Situacao = 0 - 1
    /\ cached_annotation[1].Valor.cloudOfWords = ""
    /\ cached_annotation[2].Situacao = 1
    /\ cached_annotation[2].Valor.cloudOfWords # ""
    /\ post_folder = EmptyFolder
    /\ last_flush = FlushNotCalled

\* the raw response with that status to a search of key is in the cache
RawResultCached(key, status_code) ==
    \E i \in 1..Len(cached_search_results) :
        cached_search_results[i].raw_contents = <<key, status_code>>

\* key used up its attempts, none answered 200 or with a rate-limit status
Exhausted(key) ==
    /\ Attempts(key) = SEARCH_RETRIES
    /\ \A i \in 1..SEARCH_RETRIES :
           Responses(key)[i] \notin {200} \cup RateLimitStatuses

(***************************************************************************)
(* C28.  The raw result of every finished item is cached for the history:  *)
(* when the loop has ended, the raw response of every key that succeeded   *)
(* and of every key that used up its attempts on statuses other than 200,  *)
(* 429 and 503 is in the raw-result cache, and after a successful          *)
(* save_search_results it is in search_history.parquet.                    *)
(***************************************************************************)
C28_RawResultsOfFinishedItemsCached ==
    \A key \in Keys :
        LET last == Responses(key)[Attempts(key)]
            finished ==
                /\ Attempts(key) > 0
                /\ last = 200 \/ Exhausted(key)
        IN  /\ (pc = "save_annotation" /\ finished)
               => RawResultCached(key, last)
            /\ (pc = "done" /\ finished /\ last_save_results.write = "written")
               => <<key, last>> \in Range(history_file.rows)

(***************************************************************************)
(* C29.  search_history.parquet is append-only: a save_search_results that *)
(* writes leaves in it the rows it held before followed by one row per     *)
(* cached raw result, in the order of the cache and without dropping       *)
(* repeated rows, and then empties the cache; one whose write fails (or    *)
(* that has nothing to write) leaves the cache and the file as they were.  *)
(***************************************************************************)
C29_HistoryAppendOnly ==
    [][ (pc = "save_search_results" /\ pc' # pc) =>
            LET previous == IF history_file.exists THEN history_file.rows ELSE << >>
                cached == [i \in 1..Len(cached_search_results) |->
                               cached_search_results[i].raw_contents]
            IN  IF pc' = "done" /\ cached_search_results # << >>
                THEN /\ history_file'.exists
                     /\ history_file'.rows = previous \o cached
                     /\ cached_search_results' = << >>
                ELSE /\ history_file' = history_file
                     /\ cached_search_results' = cached_search_results
      ]_vars

\* a row equal to one already in the file was appended after it
C29_Witness ==
    /\ pc = "done"
    /\ last_save_results.write = "written"
    /\ Len(history_file.rows) = 1 + Len(last_save_results.before)
    /\ \E i \in 2..Len(history_file.rows) : history_file.rows[i] = history_file.rows[1]
    /\ cached_search_results = << >>

(***************************************************************************)
(* C30.  A search call that fails at network level is treated like a       *)
(* non-200 answer: no exception of the search call leaves                  *)
(* generate_wordcloud, and whenever the search of a key has failed that    *)
(* way the run still goes on to save_annotation and save_search_results.   *)
(***************************************************************************)
C30_NetworkFailureIsRetried ==
    /\ ~(pc = "raised" /\ raised_by = "request_wordcloud")
    /\ raised_by = "request_wordcloud" => last_flush # FlushNotCalled

\* position in flush_log of the read or write of process p (0: none yet)
LogIndex(p, what) ==
    LET at == {i \in 1..Len(flush_log) :
                   flush_log[i].proc = p /\ flush_log[i].what = what}
    IN  IF at = {} THEN 0 ELSE CHOOSE i \in at : TRUE

\* both flushes wrote AnnotationNull.xlsx and reported no error
BothFlushesSucceeded ==
    \A p \in Procs : flush_pc[p] = "done" /\ LogIndex(p, "write") > 0

\* the file lacks a null record that the flush of process p wrote
LostUpdateOf(p) ==
    \E r \in Range(flush_log[LogIndex(p, "write")].rows) :
        r.ID \notin RowIDs(null_file)

\* process q read the file before process p wrote it and wrote after p
ReadBeforeAndWroteAfter(q, p) ==
    /\ LogIndex(q, "read") < LogIndex(p, "write")
    /\ LogIndex(p, "write") < LogIndex(q, "write")

(***************************************************************************)
(* C31.  Flush takes no lock: when the flushes of two processes on the     *)
(* same local folder both succeed, AnnotationNull.xlsx lacks a null record *)
(* written by one of them exactly when the other read the file before that *)
(* write and wrote its own merge after it; the witness shows that such a   *)
(* lost update is reachable.                                               *)
(***************************************************************************)
C31_LostUpdateIffInterleaved ==
    BothFlushesSucceeded =>
        \A p, q \in Procs :
            p # q => (LostUpdateOf(p) <=> ReadBeforeAndWroteAfter(q, p))

\* both flushes report success and the null record of process 1 is gone
C31_Witness ==
    /\ BothFlushesSucceeded
    /\ LostUpdateOf(1)
    /\ \A p \in Procs : flush_pending[p] = << >>
    /\ null_file.exists

(***************************************************************************)
(* C32.  Dedup tie-break in AnnotationNull.xlsx: when save_annotation      *)
(* writes the file and a pending null record has the ID of a row already   *)
(* in it, the file afterwards holds the pending record for that ID (the    *)
(* last concatenated occurrence), not the older row.                       *)
(***************************************************************************)
C32_PendingSupersedesHistory ==
    [][ (SaveAnnotationStep /\ null_file' # null_file) =>
            \A r \in Range(NullRows(cached_annotation)) :
                r.ID \in RowIDs(null_file) => r \in Range(null_file'.rows)
      ]_vars

\* the rows of the two files fetch_annotation has read
LoadedRows ==
    cloud_annotation_file.rows \o
    (IF null_file.exists THEN null_file.rows ELSE << >>)

\* the keys, separators stripped, of the rows that carry the WordCloud tag
TaggedKeys ==
    {StripDashes(r.Homologacao) :
         r \in {x \in Range(LoadedRows) : x.Atributo = "WordCloud"}}

(***************************************************************************)
(* C33.  Only ledger rows whose Atributo is "WordCloud" count: after the   *)
(* load, a catalog key (of the category, past the grace period) that no    *)
(* WordCloud row has is in the worklist, whatever rows of other attributes *)
(* it has; every entry of uuid_history comes from a WordCloud row and no   *)
(* id of a row of another attribute is in it.                              *)
(***************************************************************************)
C33_OnlyWordCloudRowsCount ==
    pc = "api" =>
        /\ \A k \in CatalogKeys :
               (k \notin TaggedKeys /\ AgeDays(k) > grace_period)
                   => k \in Range(items_to_search)
        /\ \A h \in DOMAIN uuid_history :
               \E r \in Range(LoadedRows) :
                   /\ r.Atributo = "WordCloud"
                   /\ r.Homologacao = h
                   /\ r.ID = uuid_history[h]
        /\ \A r \in Range(LoadedRows) :
               r.Atributo # "WordCloud" =>
                   \A h \in DOMAIN uuid_history : uuid_history[h] # r.ID

\* the only ledger row of KC has another attribute: KC is in the worklist
\* and not in the lookup
C33_Witness ==
    /\ pc = "api"
    /\ OtherAttributeRow \in Range(LoadedRows)
    /\ OtherAttributeRow.Homologacao = DashedForm(KC)
    /\ KC \notin TaggedKeys
    /\ KC \in CatalogKeys
    /\ KC \in Range(items_to_search)
    /\ DashedForm(KC) \notin DOMAIN uuid_history

(***************************************************************************)
(* C34.  The catalog and the committed ledger are read-only after load:    *)
(* no call of get_items_to_search, add_result, save_annotation or          *)
(* save_search_results changes DataManager.sch, DataManager.annotation or  *)
(* DataManager.uuid_history.                                               *)
(***************************************************************************)
C34_ReadOnlyAfterLoad ==
    [][ /\ sch' = sch
        /\ annotation' = annotation
        /\ uuid_history' = uuid_history ]_vars

\* a null record was flushed to AnnotationNull.xlsx, the raw results were
\* saved and the worklist was computed again: the tables in memory are those
\* that were loaded
C34_Witness ==
    /\ last_flush.null = "written"
    /\ last_save_results.write = "written"
    /\ null_file.exists
    /\ initial_items # items_to_search
    /\ sch = CatalogMixed
    /\ annotation = <<HistRow(1, KA, 1)>>
    /\ uuid_history = GetUuidHistory(annotation)
    /\ cached_annotation = << >>

(***************************************************************************)
(* C35.  Any exhausted item stops the whole run: once the SEARCH_RETRIES   *)
(* attempts of a key have all been answered with a status other than 200,  *)
(* whatever it is, the loop has ended, that key's last attempt is the last *)
(* search of the run, and the run ends only after save_annotation and      *)
(* save_search_results have been called.                                   *)
(***************************************************************************)
C35_ExhaustedItemStopsRun ==
    \A key \in Keys :
        (Attempts(key) = SEARCH_RETRIES /\ AllNon200(Responses(key)))
        => /\ LoopEnded
           /\ calls[Len(calls)][1] = key
           /\ RunEnded => /\ last_flush # FlushNotCalled
                          /\ last_save_results # SaveResultsNotCalled

\* the first of three keys was answered 503 three times: the run is over,
\* the two other keys were never searched, both saves were called
C35_Witness ==
    /\ pc = "done"
    /\ Len(initial_items) = 3
    /\ Responses(initial_items[1]) = <<503, 503, 503>>
    /\ Len(calls) = SEARCH_RETRIES
    /\ items_to_search = initial_items
    /\ last_flush # FlushNotCalled
    /\ last_save_results # SaveResultsNotCalled

\* the keys removed from the worklist since the run started
RemovedKeys == Range(initial_items) \ Range(items_to_search)

(***************************************************************************)
(* C36.  Per-item atomicity: between two items of the loop and when the    *)
(* loop has ended (before the saves), the number of pending annotations    *)
(* equals the number of cached raw results and the number of keys removed  *)
(* from the worklist since the run started, and each removed key has       *)
(* exactly one pending annotation and one cached raw result.               *)
(***************************************************************************)
C36_PerItemAtomicity ==
    pc \in {"for", "save_annotation"} =>
        /\ Len(cached_annotation) = Len(cached_search_results)
        /\ Len(cached_annotation) = Len(initial_items) - Len(items_to_search)
        /\ Len(cached_annotation) = Cardinality(RemovedKeys)
        /\ \A key \in RemovedKeys :
               /\ Cardinality({i \in 1..Len(cached_annotation) :
                      cached_annotation[i].Valor.searchedWord = key}) = 1
               /\ Cardinality({i \in 1..Len(cached_search_results) :
                      cached_search_results[i].query = key}) = 1

\* between two items, after two keys were searched with success
C36_Witness ==
    /\ pc = "for"
    /\ Cardinality(RemovedKeys) = 2
    /\ Len(cached_annotation) = 2
    /\ Len(cached_search_results) = 2
    /\ cached_annotation[1].Valor.searchedWord # cached_annotation[2].Valor.searchedWord

(***************************************************************************)
(* C37.  The worklist get_items_to_search returns holds no key twice, and  *)
(* every key of it is the number of a catalog row of the category asked    *)
(* for (of any row when the category is none of 1, 2, 3), also when the    *)
(* catalog or the ledger has repeated keys.                                *)
(***************************************************************************)
C37_WorklistKeysDistinctAndFromCatalog ==
    pc \in {"resolved", "resolved twice"} =>
        /\ \A i, j \in 1..Len(items_to_search) :
               items_to_search[i] = items_to_search[j] => i = j
        /\ \A i \in 1..Len(items_to_search) :
               \E n \in 1..Len(sch) :
                   /\ sch[n].NumeroDeHomologacao = items_to_search[i]
                   /\ category \in {1, 2, 3} => sch[n].CategoriaDoProduto = category

\* the catalog has the same number in two rows and the ledger two rows of
\* another key: the number is returned once
C37_Witness ==
    /\ pc = "resolved"
    /\ Len(sch) = 2
    /\ sch[1].NumeroDeHomologacao = KA
    /\ sch[2].NumeroDeHomologacao = KA
    /\ annotation = RepeatedKeyLedger
    /\ items_to_search = <<KA>>

\* keys without separator: the keys of the runs and a number long enough
\* for both separators to fall inside it
LongKey == <<"1", "2", "3", "4", "5", "6", "7", "8", "9">>
RoundTripKeys == Keys \cup {KAB, LongKey}

(***************************************************************************)
(* C38.  Key round-trip between runs: for a key without separator, the     *)
(* Homologacao that format_annotation writes (5-2-rest, dashed) gives the  *)
(* key back when the resolver strips the separators; so the key of a       *)
(* record appended in one run that is in the ledger the next run loads is  *)
(* not in that run's worklist.                                             *)
(***************************************************************************)
C38_KeyRoundTrip ==
    /\ \A key \in RoundTripKeys :
           /\ DashedForm(key) # key
           /\ StripDashes(DashedForm(key)) = key
    /\ \A i \in 1..Len(appended) :
           (\E j \in 1..Len(annotation) : annotation[j] = appended[i])
               => /\ StripDashes(appended[i].Homologacao) = appended[i].Valor.searchedWord
                  /\ appended[i].Valor.searchedWord \notin Range(items_to_search)

\* KA was in the worklist of the first run, its null record was flushed,
\* and the run that loaded it has an empty worklist
C38_Witness ==
    /\ pc = "api"
    /\ \E i \in 1..Len(appended) :
           /\ appended[i].Valor.searchedWord = KA
           /\ appended[i].Homologacao = <<"A", "-", "-">>
           /\ appended[i] \in Range(annotation)
    /\ KA \in CatalogKeys
    /\ AgeDays(KA) > grace_period
    /\ KA \notin Range(items_to_search)
    /\ DashedForm(LongKey) =
           <<"1", "2", "3", "4", "5", "-", "6", "7", "-", "8", "9">>

====
